---- MODULE Spec2Model ----
(***************************************************************************)
(* SessionBrowserContextFactory (src/src/sessionBrowserContextFactory.ts): *)
(* a registry of persistent browser contexts keyed by session id, with     *)
(* reference counting, explicit close, bulk close and idle cleanup.        *)
(*                                                                         *)
(* The factory runs on one JavaScript event loop.  Every action below is   *)
(* one run-to-completion segment of an async method: the code from the     *)
(* call (or from the settlement of the promise it awaits) up to the next   *)
(* await or the return.                                                    *)
(***************************************************************************)
EXTENDS Integers, Sequences, FiniteSets, Bags, TLC

\* ---------------------------------------------------------------- bounds
MaxCalls == 3          \* number of method calls made on the factory
MaxTicks == 2          \* number of times the clock advances
MaxReleases == 2       \* number of invocations of the returned close() closures

\* ------------------------------------------------------ program constants
DefaultSessionId == "default"
MsPerMinute == 60000

\* ------------------------------------------------------- input domains
NamedIds == {"s1"}
SessionIds == {DefaultSessionId} \cup NamedIds
MaxAges == {0, 1}
ClockSteps == {MsPerMinute}
Numbers == 1 .. MaxCalls   \* of the contexts and of the closures

VARIABLES
  sessions,   \* _sessions: the Map, as the sequence of its entries in insertion order
  contexts,   \* every browser context the wrapped factory has returned, by number
  provCalls,  \* per session id, how often _wrappedFactory.createContext was invoked
  calls,      \* the bag of method calls in flight: position and locals of each
  started,    \* how many method calls have been made
  last,       \* what the method call that returned last has returned
  closures,   \* the close() closures createContext has returned
  now,        \* the clock read by new Date(), in milliseconds
  ticks       \* how often the clock advanced

vars == <<sessions, contexts, provCalls, calls, started, last, closures, now, ticks>>

\* ------------------------------------------------------- Map<string, ManagedSession>
MapHas(m, k) == \E i \in DOMAIN m : m[i].key = k

MapIndex(m, k) == CHOOSE i \in DOMAIN m : m[i].key = k

MapGet(m, k) == m[MapIndex(m, k)].value

MapSet(m, k, v) ==
  IF MapHas(m, k)
    THEN [m EXCEPT ![MapIndex(m, k)].value = v]
    ELSE Append(m, [key |-> k, value |-> v])

\* a removal that empties the map
MapClear(m, k) == SelectSeq(m, LAMBDA e : FALSE)

MapDelete(m, k) == SelectSeq(m, LAMBDA e : e.key # k)

MapKeys(m) == [i \in DOMAIN m |-> m[i].key]

MapValues(m) == [i \in DOMAIN m |-> m[i].value]

\* ------------------------------------------------------- ManagedSession
ManagedSession(ctx, t) ==
  [browserContext |-> ctx, refCount |-> 0, createdAt |-> t, lastAccessedAt |-> t]

\* session.refCount++; session.lastAccessedAt = new Date()
Acquire(s, t) == [s EXCEPT !.refCount = @ + 1, !.lastAccessedAt = t]

\* ------------------------------------------------------- calls
\* a call suspended at an await: where, and its locals
Call(pc, op, id) ==
  [pc |-> pc, op |-> op, id |-> id, arg |-> 0, wait |-> {}, todo |-> <<>>, count |-> 0,
   failed |-> 0]

Suspend(c) == calls (+) SetToBag({c})

Resume(c) == calls (-) SetToBag({c})

InFlight == BagToSet(calls)

NoReturn ==
  [op |-> "none", id |-> "none", ok |-> FALSE, ctx |-> 0, count |-> 0,
   threw |-> FALSE, failed |-> 0]

\* the value a call returns: ok for a boolean result (true for the others),
\* ctx for a browser context, count for a number
Return(op, id, ok, ctx, count) ==
  [op |-> op, id |-> id, ok |-> ok, ctx |-> ctx, count |-> count,
   threw |-> FALSE, failed |-> 0]

\* the call ends with the error thrown to its caller
Throw(op, id) == [Return(op, id, FALSE, 0, 0) EXCEPT !.threw = TRUE]

\* the call returns r after it has caught and logged n errors of session.close()
Logged(r, n) == [r EXCEPT !.failed = n]

\* at most MaxCalls calls are made
CanStart == started < MaxCalls

Init ==
  /\ sessions = <<>>
  /\ contexts = <<>>
  /\ provCalls = [id \in SessionIds |-> 0]
  /\ calls = EmptyBag
  /\ started = 0
  /\ last = NoReturn
  /\ closures = <<>>
  /\ now = 0
  /\ ticks = 0

\* ------------------------------------------------------- acquire
\* A context record: id is the sessionId its 'close' handler was registered
\* with, closeCalls counts the invocations of its close(), closed tells that
\* it has emitted 'close', acquired counts the acquire calls that returned it
\* and released the holders that invoked their close() closure.

\* the context has one more holder
Held(cs, ctx) == [cs EXCEPT ![ctx].acquired = @ + 1]

\* createContext / getOrCreateSession up to the await of the wrapped factory,
\* or to the return when the session exists.
AcquireCall(op, id) ==
  /\ CanStart
  /\ started' = started + 1
  /\ IF MapHas(sessions, id)
       THEN /\ sessions' = MapSet(sessions, id, Acquire(MapGet(sessions, id), now))
            /\ contexts' = Held(contexts, MapGet(sessions, id).browserContext)
            /\ last' = Return(op, id, TRUE, MapGet(sessions, id).browserContext, 0)
            /\ closures' = IF op = "createContext"
                 THEN Append(closures,
                        [id |-> id, ctx |-> MapGet(sessions, id).browserContext, calls |-> 0])
                 ELSE closures
            /\ UNCHANGED <<provCalls, calls>>
       ELSE /\ provCalls' = [provCalls EXCEPT ![id] = @ + 1]
            /\ calls' = Suspend(Call("provision", op, id))
            /\ UNCHANGED <<sessions, contexts, last, closures>>
  /\ UNCHANGED <<now, ticks>>

createContext == AcquireCall("createContext", DefaultSessionId)

\* a getOrCreateSession that hands out an existing session without counting
\* the reference or refreshing the access time
getOrCreateSessionPeek(id) ==
  /\ CanStart
  /\ started' = started + 1
  /\ IF MapHas(sessions, id)
       THEN /\ last' = Return("getOrCreateSession", id, TRUE,
                               MapGet(sessions, id).browserContext, 0)
            /\ UNCHANGED <<sessions, contexts, closures, provCalls, calls>>
       ELSE /\ provCalls' = [provCalls EXCEPT ![id] = @ + 1]
            /\ calls' = Suspend(Call("provision", "getOrCreateSession", id))
            /\ UNCHANGED <<sessions, contexts, last, closures>>
  /\ UNCHANGED <<now, ticks>>

getOrCreateSession(id) == AcquireCall("getOrCreateSession", id)

\* the wrapped factory's promise resolves: the session is built, stored under
\* the id (replacing whatever is there), the 'close' handler is registered,
\* and the reference is counted.
ProvisionResolve ==
  \E c \in InFlight :
    /\ c.pc = "provision"
    /\ LET id == c.id
           ctx == Len(contexts) + 1
       IN /\ contexts' = Append(contexts,
               [id |-> id, closeCalls |-> 0, closed |-> FALSE, acquired |-> 1, released |-> 0])
          /\ sessions' = MapSet(sessions, id, Acquire(ManagedSession(ctx, now), now))
          /\ last' = Return(c.op, id, TRUE, ctx, 0)
          /\ closures' = IF c.op = "createContext"
               THEN Append(closures, [id |-> id, ctx |-> ctx, calls |-> 0])
               ELSE closures
    /\ calls' = Resume(c)
    /\ UNCHANGED <<provCalls, started, now, ticks>>

\* an acquire that calls the wrapped factory again when its promise rejects
ProvisionRejectRetry ==
  \E c \in InFlight :
    /\ c.pc = "provision"
    /\ provCalls[c.id] < MaxCalls + 1
    /\ provCalls' = [provCalls EXCEPT ![c.id] = @ + 1]
    /\ UNCHANGED <<sessions, contexts, calls, started, last, closures, now, ticks>>

\* the wrapped factory's promise rejects: the error leaves the method
ProvisionReject ==
  \E c \in InFlight :
    /\ c.pc = "provision"
    /\ last' = Throw(c.op, c.id)
    /\ calls' = Resume(c)
    /\ UNCHANGED <<sessions, contexts, provCalls, started, closures, now, ticks>>

\* ------------------------------------------------------- release
\* _releaseSession: session.refCount-- when the session is in the map
ReleaseMap(m, id) ==
  IF MapHas(m, id)
    THEN MapSet(m, id, [MapGet(m, id) EXCEPT !.refCount = @ - 1])
    ELSE m

\* how often the closures of cl have been invoked
RECURSIVE Invocations(_)
Invocations(cl) == IF cl = <<>> THEN 0 ELSE Head(cl).calls + Invocations(Tail(cl))

\* a holder invokes the close() closure createContext returned to it
releaseSession(h) ==
  /\ h \in DOMAIN closures
  /\ Invocations(closures) < MaxReleases
  /\ closures' = [closures EXCEPT ![h].calls = @ + 1]
  /\ sessions' = ReleaseMap(sessions, closures[h].id)
  /\ contexts' = IF closures[h].calls = 0
                   THEN [contexts EXCEPT ![closures[h].ctx].released = @ + 1]
                   ELSE contexts
  /\ UNCHANGED <<provCalls, calls, started, last, now, ticks>>

\* ------------------------------------------------------- closeSession
\* the contexts whose close() the call invokes, as a set: none or one
CloseTargets(m, id) == IF MapHas(m, id) THEN {MapGet(m, id).browserContext} ELSE {}

\* session.close() is invoked on each context of the set
InvokeClose(cs, targets) ==
  [c \in DOMAIN cs |->
     IF c \in targets THEN [cs[c] EXCEPT !.closeCalls = @ + 1] ELSE cs[c]]

\* a closeSession without the check for a missing session: session.close()
\* on undefined throws
closeSessionUnchecked(id) ==
  /\ CanStart
  /\ started' = started + 1
  /\ IF MapHas(sessions, id)
       THEN /\ sessions' = MapDelete(sessions, id)
            /\ contexts' = InvokeClose(contexts, CloseTargets(sessions, id))
            /\ calls' = Suspend([Call("teardown", "closeSession", id)
                                    EXCEPT !.wait = CloseTargets(sessions, id)])
            /\ UNCHANGED last
       ELSE /\ last' = Throw("closeSession", id)
            /\ UNCHANGED <<sessions, contexts, calls>>
  /\ UNCHANGED <<provCalls, closures, now, ticks>>

\* a closeSession that refuses to close a session that is in use
closeSessionIfIdle(id) ==
  /\ CanStart
  /\ started' = started + 1
  /\ IF MapHas(sessions, id) /\ MapGet(sessions, id).refCount <= 0
       THEN /\ sessions' = MapDelete(sessions, id)
            /\ contexts' = InvokeClose(contexts, CloseTargets(sessions, id))
            /\ calls' = Suspend([Call("teardown", "closeSession", id)
                                    EXCEPT !.wait = CloseTargets(sessions, id)])
            /\ UNCHANGED last
       ELSE /\ last' = Return("closeSession", id, FALSE, 0, 0)
            /\ UNCHANGED <<sessions, contexts, calls>>
  /\ UNCHANGED <<provCalls, closures, now, ticks>>

\* a closeSession that leaves the entry in the map while the teardown is pending
closeSessionKeep(id) ==
  /\ CanStart
  /\ started' = started + 1
  /\ IF MapHas(sessions, id)
       THEN /\ contexts' = InvokeClose(contexts, CloseTargets(sessions, id))
            /\ calls' = Suspend([Call("teardown", "closeSession", id)
                                    EXCEPT !.wait = CloseTargets(sessions, id)])
            /\ UNCHANGED <<sessions, last>>
       ELSE /\ last' = Return("closeSession", id, FALSE, 0, 0)
            /\ UNCHANGED <<sessions, contexts, calls>>
  /\ UNCHANGED <<provCalls, closures, now, ticks>>

\* closeSession up to the await of session.close(), or to return false
closeSession(id) ==
  /\ CanStart
  /\ started' = started + 1
  /\ IF MapHas(sessions, id)
       THEN /\ sessions' = MapDelete(sessions, id)
            /\ contexts' = InvokeClose(contexts, CloseTargets(sessions, id))
            /\ calls' = Suspend([Call("teardown", "closeSession", id)
                                    EXCEPT !.wait = CloseTargets(sessions, id)])
            /\ UNCHANGED last
       ELSE /\ last' = Return("closeSession", id, FALSE, 0, 0)
            /\ UNCHANGED <<sessions, contexts, calls>>
  /\ UNCHANGED <<provCalls, closures, now, ticks>>

\* a registry that serves one request at a time: the closeSession resumes
\* only when no acquire is waiting for the wrapped factory
TeardownSettleQueued(resolved) ==
  \E c \in InFlight :
    /\ c.pc = "teardown"
    /\ \A d \in InFlight : d.pc # "provision"
    /\ last' = Logged(Return("closeSession", c.id, resolved, 0, 0),
                       IF resolved THEN 0 ELSE 1)
    /\ calls' = Resume(c)
    /\ UNCHANGED <<sessions, contexts, provCalls, started, closures, now, ticks>>

\* a closeSession without the try/catch: a rejected session.close() is rethrown
TeardownSettleRethrow(resolved) ==
  \E c \in InFlight :
    /\ c.pc = "teardown"
    /\ last' = IF resolved THEN Return("closeSession", c.id, TRUE, 0, 0)
                           ELSE Throw("closeSession", c.id)
    /\ calls' = Resume(c)
    /\ UNCHANGED <<sessions, contexts, provCalls, started, closures, now, ticks>>

\* session.close() settles: return true when it resolved, false when it rejected
TeardownSettle(resolved) ==
  \E c \in InFlight :
    /\ c.pc = "teardown"
    /\ last' = Logged(Return("closeSession", c.id, resolved, 0, 0),
                       IF resolved THEN 0 ELSE 1)
    /\ calls' = Resume(c)
    /\ UNCHANGED <<sessions, contexts, provCalls, started, closures, now, ticks>>

\* ------------------------------------------------------- closeAllSessions
\* the browser contexts of the sessions in the map
Resident(m) == {m[i].value.browserContext : i \in DOMAIN m}

\* closeAllSessions up to the await of Promise.all: close() has been invoked
\* on every session of the map, and the map is as it was
closeAllSessions ==
  /\ CanStart
  /\ started' = started + 1
  /\ contexts' = InvokeClose(contexts, Resident(sessions))
  /\ calls' = Suspend([Call("closeAll", "closeAllSessions", "none")
                          EXCEPT !.wait = Resident(sessions)])
  /\ UNCHANGED <<sessions, provCalls, last, closures, now, ticks>>

\* a fan-out without the try/catch: the first rejection ends the call
CloseAllSettleAbort(ctx, resolved) ==
  \E c \in InFlight :
    /\ c.pc = "closeAll"
    /\ ctx \in c.wait
    /\ IF resolved
         THEN /\ calls' = Resume(c) (+) SetToBag({[c EXCEPT !.wait = @ \ {ctx}]})
              /\ UNCHANGED last
         ELSE /\ calls' = Resume(c)
              /\ last' = Throw("closeAllSessions", "none")
    /\ UNCHANGED <<sessions, contexts, provCalls, started, closures, now, ticks>>

\* one session.close() of the fan-out settles; a rejection is caught and logged
CloseAllSettle(ctx, resolved) ==
  \E c \in InFlight :
    /\ c.pc = "closeAll"
    /\ ctx \in c.wait
    /\ calls' = Resume(c) (+) SetToBag({[c EXCEPT !.wait = @ \ {ctx},
                                                    !.failed = IF resolved THEN @ ELSE @ + 1]})
    /\ UNCHANGED <<sessions, contexts, provCalls, started, last, closures, now, ticks>>

\* a closeAllSessions that also waits until no acquire is waiting for the
\* wrapped factory
CloseAllFinishDrained ==
  \E c \in InFlight :
    /\ c.pc = "closeAll"
    /\ c.wait = {}
    /\ \A d \in InFlight : d.pc # "provision"
    /\ sessions' = <<>>
    /\ last' = Logged(Return("closeAllSessions", "none", TRUE, 0, 0), c.failed)
    /\ calls' = Resume(c)
    /\ UNCHANGED <<contexts, provCalls, started, closures, now, ticks>>

\* Promise.all has resolved: this._sessions.clear()
CloseAllFinish ==
  \E c \in InFlight :
    /\ c.pc = "closeAll"
    /\ c.wait = {}
    /\ sessions' = <<>>
    /\ last' = Logged(Return("closeAllSessions", "none", TRUE, 0, 0), c.failed)
    /\ calls' = Resume(c)
    /\ UNCHANGED <<contexts, provCalls, started, closures, now, ticks>>

\* ------------------------------------------------------- cleanupOldSessions
\* a selection by age alone
IsOldAnyRef(s, t, maxAgeMinutes) ==
  t - s.lastAccessedAt > maxAgeMinutes * MsPerMinute

\* a selection that takes a session of exactly the maximum age too
IsOldInclusive(s, t, maxAgeMinutes) ==
  /\ s.refCount = 0
  /\ t - s.lastAccessedAt >= maxAgeMinutes * MsPerMinute

\* refCount === 0 and (now - lastAccessedAt) / (1000 * 60) > maxAgeMinutes
IsOld(s, t, maxAgeMinutes) ==
  /\ s.refCount = 0
  /\ t - s.lastAccessedAt > maxAgeMinutes * MsPerMinute

\* sessionsToClose: the ids of the old sessions, in the order of the map
SessionsToClose(m, t, maxAgeMinutes) ==
  MapKeys(SelectSeq(m, LAMBDA e : IsOld(e.value, t, maxAgeMinutes)))

\* the call of closeSession(todo[1]) made by the loop of cleanupOldSessions,
\* up to its await of session.close() ("sweep"), or to its return of false
\* when the id has no session, which leaves the loop at its own await ("swept")
SweepClose(others, maxAgeMinutes, todo, count, failed) ==
  /\ sessions' = MapDelete(sessions, Head(todo))
  /\ contexts' = InvokeClose(contexts, CloseTargets(sessions, Head(todo)))
  /\ calls' = others (+) SetToBag({[Call(IF CloseTargets(sessions, Head(todo)) = {}
                                          THEN "swept" ELSE "sweep",
                                        "cleanupOldSessions", Head(todo))
                 EXCEPT !.arg = maxAgeMinutes, !.todo = Tail(todo), !.count = count,
                        !.failed = failed,
                        !.wait = CloseTargets(sessions, Head(todo))]})
  /\ UNCHANGED last

\* cleanupOldSessions from the call to the first await, or to the return
\* when no session was selected
cleanupOldSessions(maxAgeMinutes) ==
  /\ CanStart
  /\ started' = started + 1
  /\ LET todo == SessionsToClose(sessions, now, maxAgeMinutes)
     IN IF todo = <<>>
          THEN /\ last' = Return("cleanupOldSessions", "none", TRUE, 0, 0)
               /\ UNCHANGED <<sessions, contexts, calls>>
          ELSE SweepClose(calls, maxAgeMinutes, todo, Len(todo), 0)
  /\ UNCHANGED <<provCalls, closures, now, ticks>>

\* a closeSession without the try/catch: the rejection of session.close()
\* leaves closeSession and the loop that awaits it
SweepSettleRethrow(resolved) ==
  \E c \in InFlight :
    /\ c.pc = "sweep"
    /\ IF resolved
         THEN /\ calls' = Resume(c) (+) SetToBag({[c EXCEPT !.pc = "swept"]})
              /\ UNCHANGED last
         ELSE /\ calls' = Resume(c)
              /\ last' = Throw("cleanupOldSessions", "none")
    /\ UNCHANGED <<sessions, contexts, provCalls, started, closures, now, ticks>>

\* the session.close() awaited by the closeSession of the loop settles:
\* closeSession returns true, or logs the error and returns false; the loop
\* is still at its own await
SweepSettle(resolved) ==
  \E c \in InFlight :
    /\ c.pc = "sweep"
    /\ calls' = Resume(c) (+) SetToBag({[c EXCEPT !.pc = "swept",
                                                    !.failed = IF resolved THEN @ ELSE @ + 1]})
    /\ UNCHANGED <<sessions, contexts, provCalls, started, last, closures, now, ticks>>

\* the loop resumes after the awaited closeSession has returned; the result
\* is not looked at: the loop goes on to the next id, or the count is returned
SweepResume ==
  \E c \in InFlight :
    /\ c.pc = "swept"
    /\ IF c.todo = <<>>
         THEN /\ last' = Logged(Return("cleanupOldSessions", "none", TRUE, 0, c.count),
                                c.failed)
              /\ calls' = Resume(c)
              /\ UNCHANGED <<sessions, contexts>>
         ELSE SweepClose(Resume(c), c.arg, c.todo, c.count, c.failed)
    /\ UNCHANGED <<provCalls, started, closures, now, ticks>>

\* ------------------------------------------------------- the session tools
\* the default of browser_session_cleanup, in minutes
DefaultMaxAgeMinutes == 60

\* params.maxAgeMinutes || 60: a missing value and 0 both give the default
OrDefault(maxAgeMinutes) ==
  IF maxAgeMinutes = 0 THEN DefaultMaxAgeMinutes ELSE maxAgeMinutes

\* browser_session_create: getOrCreateSession(params.sessionId); an error is
\* reported and thrown again
sessionCreate(id) == getOrCreateSession(id)

\* browser_session_close: closeSession(params.sessionId); params.force is
\* not read
sessionClose(id, force) == closeSession(id)

\* browser_session_cleanup: cleanupOldSessions(params.maxAgeMinutes || 60)
sessionCleanup(maxAgeMinutes) == cleanupOldSessions(OrDefault(maxAgeMinutes))

\* ------------------------------------------------------- the environment
\* a factory that registers no 'close' handler: the entry of a context that
\* has closed stays in the map
ContextClosedKeep(ctx) ==
  /\ ctx \in DOMAIN contexts
  /\ ~contexts[ctx].closed
  /\ contexts' = [contexts EXCEPT ![ctx].closed = TRUE]
  /\ UNCHANGED <<sessions, provCalls, calls, started, last, closures, now, ticks>>

\* the browser context emits 'close', once, because it was closed from
\* outside or because its close() ran: the handler registered at creation
\* deletes the entry stored under the session id it was created for
ContextClosed(ctx) ==
  /\ ctx \in DOMAIN contexts
  /\ ~contexts[ctx].closed
  /\ contexts' = [contexts EXCEPT ![ctx].closed = TRUE]
  /\ sessions' = MapDelete(sessions, contexts[ctx].id)
  /\ UNCHANGED <<provCalls, calls, started, last, closures, now, ticks>>

Tick(d) ==
  /\ ticks < MaxTicks
  /\ ticks' = ticks + 1
  /\ now' = now + d
  /\ UNCHANGED <<sessions, contexts, provCalls, calls, started, last, closures>>

Next ==
  \/ createContext
  \/ \E id \in SessionIds : getOrCreateSession(id)
  \/ ProvisionResolve
  \/ ProvisionReject
  \/ \E h \in Numbers : releaseSession(h)
  \/ \E id \in SessionIds : closeSession(id)
  \/ \E resolved \in BOOLEAN : TeardownSettle(resolved)
  \/ closeAllSessions
  \/ \E ctx \in Numbers, resolved \in BOOLEAN : CloseAllSettle(ctx, resolved)
  \/ CloseAllFinish
  \/ \E m \in MaxAges : cleanupOldSessions(m)
  \/ \E resolved \in BOOLEAN : SweepSettle(resolved)
  \/ SweepResume
  \/ \E ctx \in Numbers : ContextClosed(ctx)
  \/ \E d \in ClockSteps : Tick(d)

Spec == Init /\ [][Next]_vars

\* the factory driven through the session tools as well as directly
ToolNext ==
  \/ \E id \in SessionIds : sessionCreate(id)
  \/ \E id \in SessionIds, force \in BOOLEAN : sessionClose(id, force)
  \/ \E m \in MaxAges : sessionCleanup(m)
  \/ Next

ToolSpec == Init /\ [][ToolNext]_vars

\* every close awaited by closeAllSessions or by the loop of
\* cleanupOldSessions settles, and a call whose await has settled resumes
FairSpec ==
  /\ Spec
  /\ WF_vars(\E ctx \in Numbers, resolved \in BOOLEAN : CloseAllSettle(ctx, resolved))
  /\ WF_vars(CloseAllFinish)
  /\ WF_vars(\E resolved \in BOOLEAN : SweepSettle(resolved))
  /\ WF_vars(SweepResume)

\* ======================================================= properties
\* how many acquire calls have returned a context created for session id
RECURSIVE AcquiredFor(_, _)
AcquiredFor(cs, id) ==
  IF cs = <<>> THEN 0
  ELSE (IF Head(cs).id = id THEN Head(cs).acquired ELSE 0) + AcquiredFor(Tail(cs), id)

\* the ids of the sessions nobody holds
IdleIds(m) == {m[i].key : i \in {j \in DOMAIN m : m[j].value.refCount = 0}}

\* a step of cleanupOldSessions: the call, or the loop going on after an await
SweepStep ==
  (\E m \in MaxAges : cleanupOldSessions(m)) \/ SweepResume

\* C1: when two acquire calls for one id are the only calls made and both have
\* returned a context (started one after the other or both while the map had
\* no session for the id), the wrapped factory was invoked once for the id,
\* one context exists, and the map holds its session with refCount 2.
C1_ConcurrentAcquireOnce ==
  \A id \in SessionIds :
    ( /\ started = 2
      /\ calls = EmptyBag
      /\ AcquiredFor(contexts, id) = 2
      /\ Invocations(closures) = 0
      /\ \A ctx \in DOMAIN contexts : ~contexts[ctx].closed )
    => /\ provCalls[id] = 1
       /\ Len(contexts) = 1
       /\ MapHas(sessions, id)
       /\ MapGet(sessions, id).browserContext = 1
       /\ MapGet(sessions, id).refCount = 2

\* C2: session.close of every session the factory created is invoked at most
\* once.
C2_TeardownAtMostOnce ==
  \A ctx \in DOMAIN contexts : contexts[ctx].closeCalls <= 1

\* C3: every context the wrapped factory returned, whose close was not
\* invoked and which did not emit 'close', belongs to a session of the map.
C3_NeverLosesTrack ==
  \A ctx \in DOMAIN contexts :
    (contexts[ctx].closeCalls = 0 /\ ~contexts[ctx].closed) => ctx \in Resident(sessions)

\* C4: the refCount of every session of the map is at least 0.
C4_RefCountNonNegative ==
  \A i \in DOMAIN sessions : sessions[i].value.refCount >= 0

\* C5: a release for an id that has no session, or whose session has
\* refCount 0, leaves the map and every session record as they were.
C5_ReleaseNoOp ==
  [][\A h \in DOMAIN closures :
       ( /\ releaseSession(h)
         /\ \/ ~MapHas(sessions, closures[h].id)
            \/ MapGet(sessions, closures[h].id).refCount = 0 )
       => sessions' = sessions]_vars

\* C6: while an id stays in the map its session keeps its browser context and
\* the wrapped factory is not invoked for that id again, so every later
\* acquire returns the same context.
C6_SessionPersists ==
  [][\A id \in SessionIds :
       (MapHas(sessions, id) /\ MapHas(sessions', id))
       => /\ MapGet(sessions', id).browserContext = MapGet(sessions, id).browserContext
          /\ provCalls'[id] = provCalls[id]]_vars

\* C7: a release that brings refCount to 0 leaves the session in the map with
\* its context and invokes no close; a session with refCount 0 leaves the map
\* (its context is no longer the context of any entry) only through a
\* closeSession of its id, a step of cleanupOldSessions, the clear of
\* closeAllSessions or the 'close' event of its own context.
C7_ReleaseKeepsSession ==
  [][/\ \A h \in DOMAIN closures :
          ( /\ releaseSession(h)
            /\ MapHas(sessions, closures[h].id)
            /\ MapGet(sessions, closures[h].id).refCount = 1 )
          => /\ MapHas(sessions', closures[h].id)
             /\ MapGet(sessions', closures[h].id) =
                  [MapGet(sessions, closures[h].id) EXCEPT !.refCount = 0]
             /\ \A ctx \in DOMAIN contexts :
                  contexts'[ctx].closeCalls = contexts[ctx].closeCalls
     /\ \A i \in DOMAIN sessions :
          ( /\ sessions[i].value.refCount = 0
            /\ sessions[i].value.browserContext \notin Resident(sessions') )
          => \/ closeSession(sessions[i].key)
             \/ SweepStep
             \/ CloseAllFinish
             \/ ContextClosed(sessions[i].value.browserContext)]_vars

\* C8: every session a step of cleanupOldSessions takes out of the map has
\* refCount 0 at that step.
C8_SweepOnlyIdle ==
  [][SweepStep
       => \A id \in SessionIds :
            (MapHas(sessions, id) /\ ~MapHas(sessions', id))
            => MapGet(sessions, id).refCount = 0]_vars

\* C8 witness: cleanupOldSessions has removed a session and awaits its close
\* while an acquire for the same id is under way.
C8_Witness ==
  \E c \in InFlight, a \in InFlight :
    /\ c.pc = "sweep" /\ c.wait # {}
    /\ \A ctx \in c.wait : contexts[ctx].closeCalls = 1
    /\ a.pc = "provision" /\ a.id = c.id

\* C9: cleanupOldSessions(0) removes every session with refCount 0, keeps
\* every session with refCount > 0 and returns the number of removed sessions.
C9_CleanupZeroRemovesIdle ==
  [][cleanupOldSessions(0)
       => /\ \A id \in IdleIds(sessions) : ~MapHas(sessions', id)
          /\ \A id \in SessionIds \ IdleIds(sessions) :
               MapHas(sessions, id) => MapHas(sessions', id)
          /\ IF calls' = calls
               THEN last'.count = Cardinality(IdleIds(sessions))
               ELSE \E c \in BagToSet(calls') :
                      c.pc = "sweep" /\ c.count = Cardinality(IdleIds(sessions))]_vars

\* C10: a session whose close has been invoked is no longer in the map, so no
\* acquire can return its context.
C10_ClosingNotResident ==
  \A ctx \in DOMAIN contexts :
    contexts[ctx].closeCalls > 0 => ctx \notin Resident(sessions)

\* the in-flight call c returns in this step
Returns(c) ==
  /\ c \in InFlight
  /\ BagCardinality(calls') < BagCardinality(calls)
  /\ CopiesIn(c, calls') < CopiesIn(c, calls)

\* C11: when closeAllSessions returns, the map is empty and the close of
\* every context the wrapped factory has returned so far was invoked, or the
\* context has emitted 'close'.
C11_CloseAllLeavesNothing ==
  [][CloseAllFinish
       => /\ sessions' = <<>>
          /\ \A ctx \in DOMAIN contexts' :
               contexts'[ctx].closeCalls > 0 \/ contexts'[ctx].closed]_vars

\* C12: closeAllSessions invokes the close of every session that is in the
\* map when it is called; a close that rejects is caught, the call goes on
\* waiting for the others, and it returns without an error with the map empty.
C12_CloseAllToleratesFailures ==
  [][/\ closeAllSessions
          => \A ctx \in Resident(sessions) :
               contexts'[ctx].closeCalls = contexts[ctx].closeCalls + 1
     /\ \A c \in InFlight :
          (c.pc = "closeAll" /\ Returns(c))
          => /\ c.wait = {}
             /\ last' = Logged(Return("closeAllSessions", "none", TRUE, 0, 0), c.failed)
             /\ sessions' = <<>>]_vars

\* C12 witness: closeAllSessions has returned after closing two sessions, of
\* which at least one close rejected, and the map is empty.
C12_Witness ==
  /\ last.op = "closeAllSessions" /\ ~last.threw /\ last.failed >= 1
  /\ sessions = <<>>
  /\ Cardinality({ctx \in DOMAIN contexts : contexts[ctx].closeCalls = 1}) = 2

\* C13 as stated: when closeSession(id) returns for an id that had a session,
\* the map has no entry for id, whatever ran during the pending teardown.
C13_IdAbsentAtReturn ==
  [][\A c \in InFlight :
       (c.pc = "teardown" /\ Returns(c)) => ~MapHas(sessions', c.id)]_vars

\* C13 amended: closeSession(id) removes the entry of id before the teardown
\* is awaited, and the session it closed is not in the map while the teardown
\* is pending nor when the call returns; an entry for id at that time belongs
\* to a session that a later acquire created.
C13_ClosedSessionAbsentAtReturn ==
  [][/\ \A id \in SessionIds :
          (closeSession(id) /\ MapHas(sessions, id))
          => /\ ~MapHas(sessions', id)
             /\ CloseTargets(sessions, id) \cap Resident(sessions') = {}
     /\ \A c \in InFlight :
          c.pc = "teardown"
          => /\ c.wait \cap Resident(sessions) = {}
             /\ Returns(c) => c.wait \cap Resident(sessions') = {}]_vars

\* C13 witness: closeSession(id) has returned, the context it closed is not
\* in the map, and the map holds a newer session for the same id.
C13_Witness ==
  /\ last.op = "closeSession" /\ MapHas(sessions, last.id)
  /\ \E ctx \in DOMAIN contexts :
       /\ contexts[ctx].id = last.id /\ contexts[ctx].closeCalls = 1
       /\ ctx \notin Resident(sessions)
       /\ MapGet(sessions, last.id).browserContext > ctx

\* C14: closeSession(id) for an id that is not in the map returns false
\* without an error and without invoking any close; the map, every session
\* record and every context are as before.
C14_CloseAbsentIsNoOp ==
  [][\A id \in SessionIds :
       (closeSession(id) /\ ~MapHas(sessions, id))
       => /\ last' = Return("closeSession", id, FALSE, 0, 0)
          /\ ~last'.threw
          /\ sessions' = sessions /\ contexts' = contexts
          /\ calls' = calls /\ closures' = closures /\ provCalls' = provCalls]_vars

\* C14 witness: closeSession has returned false for an id that is not in the
\* map, no close was ever invoked, and another session is in the map.
C14_Witness ==
  /\ last.op = "closeSession" /\ ~last.ok /\ ~last.threw /\ last.failed = 0
  /\ ~MapHas(sessions, last.id)
  /\ sessions # <<>>
  /\ \A ctx \in DOMAIN contexts : contexts[ctx].closeCalls = 0

\* C15: closeSession(id) for an id that is in the map removes the entry and
\* invokes the close of its context once, whatever the session's refCount.
C15_CloseIgnoresRefCount ==
  [][\A id \in SessionIds :
       (closeSession(id) /\ MapHas(sessions, id))
       => LET ctx == MapGet(sessions, id).browserContext
          IN /\ ~MapHas(sessions', id)
             /\ contexts'[ctx].closeCalls = contexts[ctx].closeCalls + 1
             /\ \E c \in BagToSet(calls') : c.pc = "teardown" /\ c.wait = {ctx}]_vars

\* C15 witness: a closeSession is awaiting the close of a context that was
\* acquired and never released (no close closure has been invoked at all),
\* so the session had refCount 1 when it was closed.
C15_Witness ==
  \E c \in InFlight :
    /\ c.pc = "teardown"
    /\ Invocations(closures) = 0
    /\ \E ctx \in c.wait :
         /\ contexts[ctx].acquired = 1 /\ contexts[ctx].released = 0
         /\ contexts[ctx].closeCalls = 1
    /\ ~MapHas(sessions, c.id)

\* C16: when the close awaited by closeSession(id) rejects, closeSession
\* returns false without an error, the map is as the removal left it, and
\* the closed session's context is not in it.
C16_TeardownFailureReturnsFalse ==
  [][TeardownSettle(FALSE)
       => /\ last'.op = "closeSession" /\ ~last'.ok /\ ~last'.threw
          /\ sessions' = sessions
          /\ \A c \in InFlight :
               (c.pc = "teardown" /\ Returns(c))
               => /\ last'.id = c.id
                  /\ c.wait \cap Resident(sessions') = {}]_vars

\* C16 witness: closeSession has returned false after a rejected close, and
\* the context it closed is not in the map.
C16_Witness ==
  /\ last.op = "closeSession" /\ ~last.ok /\ ~last.threw /\ last.failed = 1
  /\ \E ctx \in DOMAIN contexts :
       /\ contexts[ctx].id = last.id /\ contexts[ctx].closeCalls = 1
       /\ ctx \notin Resident(sessions)
  /\ ~MapHas(sessions, last.id)

\* C17: when the wrapped factory rejects, the acquire that awaited it throws;
\* no session is stored, no refCount changes, the map is as before, and the
\* wrapped factory is not called again.
C17_ProvisionFailurePropagates ==
  [][ProvisionReject
       => /\ last'.threw /\ last'.op \in {"createContext", "getOrCreateSession"}
          /\ sessions' = sessions /\ contexts' = contexts
          /\ provCalls' = provCalls /\ closures' = closures
          /\ BagCardinality(calls') = BagCardinality(calls) - 1]_vars

\* C17 witness: an acquire has thrown, its id has no session, and the
\* session of the other id is still in the map.
C17_Witness ==
  /\ last.threw /\ last.op \in {"createContext", "getOrCreateSession"}
  /\ ~MapHas(sessions, last.id)
  /\ sessions # <<>>
  /\ provCalls[last.id] = 1
  /\ \A ctx \in DOMAIN contexts : contexts[ctx].id # last.id

\* C18: when the context of a session that is in the map emits 'close', the
\* entry is removed and no close of the context is invoked; a context that
\* has emitted 'close' is never in the map again and no acquire returns it.
C18_ExternalCloseEvicts ==
  [][/\ \A ctx \in DOMAIN contexts :
          (ContextClosed(ctx) /\ ctx \in Resident(sessions))
          => /\ contexts'[ctx].closeCalls = contexts[ctx].closeCalls
             /\ ~MapHas(sessions', contexts[ctx].id)
     /\ \A ctx \in DOMAIN contexts :
          contexts'[ctx].closed
          => /\ ctx \notin Resident(sessions')
             /\ contexts'[ctx].acquired = contexts[ctx].acquired]_vars

\* C18 witness: a context emitted 'close' without its close having been
\* invoked, and a later context of the same id is in the map and open.
C18_Witness ==
  \E ctx \in DOMAIN contexts, fresh \in DOMAIN contexts :
    /\ contexts[ctx].closed /\ contexts[ctx].closeCalls = 0
    /\ fresh > ctx /\ contexts[fresh].id = contexts[ctx].id
    /\ ~contexts[fresh].closed
    /\ fresh \in Resident(sessions)
    /\ last.ctx = fresh

\* C19: the refCount of every session in the map is the number of acquires
\* that returned the session's context minus the number of close closures
\* issued for that context that have been invoked (each counted once).
C19_RefCountIsOutstanding ==
  \A i \in DOMAIN sessions :
    LET ctx == sessions[i].value.browserContext
    IN sessions[i].value.refCount = contexts[ctx].acquired - contexts[ctx].released

\* C20: cleanupOldSessions counts the sessions it selects when it is called
\* and returns that count without an error, whether the close of a selected
\* session resolves or rejects.
C20_CleanupCountsSelected ==
  [][/\ \A m \in MaxAges :
          cleanupOldSessions(m)
          => LET n == Len(SessionsToClose(sessions, now, m))
             IN IF n = 0
                  THEN last' = Return("cleanupOldSessions", "none", TRUE, 0, 0)
                  ELSE \E c \in BagToSet(calls') :
                         c.pc = "sweep" /\ c.count = n /\ Len(c.todo) = n - 1
     /\ \A c \in InFlight :
          (c.pc \in {"sweep", "swept"} /\ Returns(c))
          => /\ last'.op = "cleanupOldSessions" /\ ~last'.threw
             /\ last'.count = c.count]_vars

\* C20 witness: cleanupOldSessions has returned 1 after the close of the one
\* session it selected rejected.
C20_Witness ==
  /\ last.op = "cleanupOldSessions" /\ ~last.threw
  /\ last.count = 1 /\ last.failed = 1
  /\ \E ctx \in DOMAIN contexts :
       contexts[ctx].closeCalls = 1 /\ ctx \notin Resident(sessions)

\* what a call of an acquire for id does to the registry before its first
\* await: an existing session gets one more reference and the current time
\* as access time; otherwise the wrapped factory is called once, the map is
\* left alone and the call waits
AcquireEffect(op, id) ==
  IF MapHas(sessions, id)
    THEN /\ sessions' = MapSet(sessions, id,
                          [MapGet(sessions, id) EXCEPT
                             !.refCount = MapGet(sessions, id).refCount + 1,
                             !.lastAccessedAt = now])
         /\ last'.op = op /\ last'.ctx = MapGet(sessions, id).browserContext
         /\ provCalls' = provCalls /\ calls' = calls
    ELSE /\ sessions' = sessions
         /\ provCalls' = [provCalls EXCEPT ![id] = provCalls[id] + 1]
         /\ calls' = calls (+) SetToBag({Call("provision", op, id)})

\* what the rest of an acquire does once the wrapped factory has answered:
\* a session with the new context, one reference and the current time as
\* both timestamps is stored under the id
CreateEffect(c) ==
  /\ Len(contexts') = Len(contexts) + 1
  /\ sessions' = MapSet(sessions, c.id,
                   [browserContext |-> Len(contexts'), refCount |-> 1,
                    createdAt |-> now, lastAccessedAt |-> now])
  /\ last'.op = c.op /\ last'.ctx = Len(contexts')
  /\ provCalls' = provCalls

\* C21: createContext and getOrCreateSession of the default id do the same
\* to the map, to the count of calls of the wrapped factory and to the
\* pending calls, when the session exists and when it has to be created;
\* createContext issues one close closure and getOrCreateSession none; the
\* context of a session created by either removes the entry when it closes.
C21_AcquirePathsAgree ==
  [][/\ createContext
          => /\ AcquireEffect("createContext", DefaultSessionId)
             /\ MapHas(sessions, DefaultSessionId) => Len(closures') = Len(closures) + 1
     /\ \A id \in SessionIds :
          getOrCreateSession(id)
          => /\ AcquireEffect("getOrCreateSession", id)
             /\ closures' = closures
     /\ \A c \in InFlight :
          (c.pc = "provision" /\ ProvisionResolve /\ Returns(c))
          => /\ CreateEffect(c)
             /\ IF c.op = "createContext"
                  THEN closures' = Append(closures,
                         [id |-> c.id, ctx |-> Len(contexts'), calls |-> 0])
                  ELSE closures' = closures
     /\ \A ctx \in DOMAIN contexts :
          ContextClosed(ctx) => ~MapHas(sessions', contexts[ctx].id)]_vars

\* C21 witness: the default session was created by one of the two acquires
\* and then reused by the other: two references, one close closure.
C21_Witness ==
  /\ MapHas(sessions, DefaultSessionId)
  /\ MapGet(sessions, DefaultSessionId).refCount = 2
  /\ Len(closures) = 1 /\ closures[1].calls = 0
  /\ last.op = "getOrCreateSession" /\ last.id = DefaultSessionId
  /\ provCalls[DefaultSessionId] = 1

\* the ids a sweep call still has to close, the one being closed included
Pending(c) == {c.id} \cup {c.todo[i] : i \in DOMAIN c.todo}

\* id has left the map in this step, or a sweep that starts in it will close it
Swept(id) ==
  \/ ~MapHas(sessions', id)
  \/ \E c \in BagToSet(calls') :
       c.pc \in {"sweep", "swept"} /\ CopiesIn(c, calls) = 0 /\ id \in Pending(c)

\* C22: browser_session_cleanup with maxAgeMinutes 0 closes every session
\* that has refCount 0 and was last accessed before the current time.
C22_CleanupToolZeroForces ==
  [][sessionCleanup(0)
       => \A i \in DOMAIN sessions :
            (sessions[i].value.refCount = 0 /\ sessions[i].value.lastAccessedAt < now)
            => Swept(sessions[i].key)]_vars

\* C23: cleanupOldSessions(maxAgeMinutes) removes a named session that was
\* last accessed more than maxAgeMinutes ago and whose close was never invoked.
C23_UnusedNamedSessionSwept ==
  [][\A m \in MaxAges :
       (cleanupOldSessions(m) \/ (m # 0 /\ sessionCleanup(m)))
       => \A i \in DOMAIN sessions :
            (/\ sessions[i].key \in NamedIds
             /\ now - sessions[i].value.lastAccessedAt > m * MsPerMinute
             /\ contexts[sessions[i].value.browserContext].closeCalls = 0)
            => Swept(sessions[i].key)]_vars

\* C24: browser_session_close with force false leaves a session that has
\* refCount > 0 in the map and does not invoke its close.
C24_CloseToolNeedsForce ==
  [][\A id \in SessionIds :
       (sessionClose(id, FALSE) /\ MapHas(sessions, id)
          /\ MapGet(sessions, id).refCount > 0)
       => MapHas(sessions', id) /\ contexts' = contexts]_vars

\* C25: when a context that is not in the map emits 'close', the map is
\* left as it is: the session stored later under the same id stays.
C25_StaleCloseKeepsNewer ==
  [][\A ctx \in DOMAIN contexts :
       (ContextClosed(ctx) /\ ctx \notin Resident(sessions)) => sessions' = sessions]_vars

\* the record stored under id, or none
Entry(m, id) == IF MapHas(m, id) THEN <<MapGet(m, id)>> ELSE <<>>

\* this step is an acquire of id (either segment), a release through a close
\* closure bound to id, a closeSession(id) (either segment), or the 'close'
\* event of a context created for id
ActsOn(id) ==
  \/ getOrCreateSession(id)
  \/ (id = DefaultSessionId /\ createContext)
  \/ \E c \in InFlight :
       /\ c.id = id /\ Returns(c)
       /\ \/ (c.pc = "provision" /\ (ProvisionResolve \/ ProvisionReject))
          \/ (c.pc = "teardown" /\ \E resolved \in BOOLEAN : TeardownSettle(resolved))
  \/ \E h \in DOMAIN closures : closures[h].id = id /\ releaseSession(h)
  \/ closeSession(id)
  \/ \E ctx \in DOMAIN contexts : contexts[ctx].id = id /\ ContextClosed(ctx)

\* C26: an acquire, a release, a closeSession or a 'close' event for one id
\* leaves the entry of every other id as it is (present or absent, and the
\* whole record), and whenever the map changes, no two sessions in it have
\* the same context.
C26_IsolatedByIdentifier ==
  [][sessions' # sessions
       => /\ \A a \in SessionIds, b \in SessionIds :
               (a # b /\ Entry(sessions', b) # Entry(sessions, b)) => ~ActsOn(a)
          /\ \A i \in DOMAIN sessions', j \in DOMAIN sessions' :
               sessions'[i].value.browserContext = sessions'[j].value.browserContext
               => i = j]_vars

\* C26 witness: closeSession has closed the default session, and the named
\* session is in the map as its creation left it: one reference, context
\* open, close never invoked.
C26_Witness ==
  /\ ~MapHas(sessions, DefaultSessionId)
  /\ last.op = "closeSession" /\ last.id = DefaultSessionId /\ last.ok
  /\ \E id \in NamedIds :
       /\ MapHas(sessions, id)
       /\ MapGet(sessions, id).refCount = 1
       /\ ~contexts[MapGet(sessions, id).browserContext].closed
       /\ contexts[MapGet(sessions, id).browserContext].closeCalls = 0

\* the acquires and closeSessions of id that wait for the wrapped factory or
\* for a close
PendingFor(id) == {c \in InFlight : c.id = id /\ c.pc \in {"provision", "teardown"}}

\* the wrapped factory answers an acquire of id, or the close awaited by a
\* closeSession(id) settles
SettleFor(id) ==
  \E c \in PendingFor(id) :
    /\ \/ (c.pc = "provision" /\ ProvisionResolve)
       \/ (c.pc = "teardown" /\ \E resolved \in BOOLEAN : TeardownSettle(resolved))
    /\ Returns(c)

\* C27: for every id, if the wrapped factory and the closes answer the calls
\* of that id, every acquire and closeSession of the id returns, whether or
\* not the calls of the other ids are ever answered.
C27_NoDeadlockAcrossIds ==
  \A b \in SessionIds :
    WF_vars(SettleFor(b)) => ((PendingFor(b) # {}) ~> (PendingFor(b) = {}))

\* C27 witness: an acquire of the default id is still waiting for the
\* wrapped factory, and meanwhile a named session was created and closed.
C27_Witness ==
  /\ \E c \in PendingFor(DefaultSessionId) : c.pc = "provision"
  /\ last.op = "closeSession" /\ last.id \in NamedIds /\ last.ok
  /\ \A id \in NamedIds : PendingFor(id) = {}
  /\ started = 3

\* the calls of closeAllSessions and cleanupOldSessions that have not returned
Sweeping == {c \in InFlight : c.pc \in {"closeAll", "sweep", "swept"}}

\* C28: when the closes they await settle, every closeAllSessions and every
\* cleanupOldSessions returns, whatever else runs in between.
C28_BulkCallsReturn == (Sweeping # {}) ~> (Sweeping = {})

\* C28 witness: a closeAllSessions and a cleanupOldSessions that closed the
\* same context have both returned.
C28_Witness ==
  /\ Sweeping = {}
  /\ last.op = "cleanupOldSessions" /\ last.count = 1
  /\ sessions = <<>>
  /\ \E ctx \in DOMAIN contexts : contexts[ctx].closeCalls = 2

\* the ids of the sessions with refCount 0 whose last access lies more than
\* maxAgeMinutes before the current time
IdleSince(maxAgeMinutes) ==
  {sessions[i].key : i \in {j \in DOMAIN sessions :
      /\ sessions[j].value.refCount = 0
      /\ sessions[j].value.lastAccessedAt + maxAgeMinutes * MsPerMinute < now}}

\* how often the context had been handed out before this step
AcquiredBefore(ctx) == IF ctx \in DOMAIN contexts THEN contexts[ctx].acquired ELSE 0

\* C29: a step that hands out the context of a session leaves the session
\* with the current time as lastAccessedAt; cleanupOldSessions(maxAgeMinutes)
\* selects the sessions with refCount 0 and a last access more than
\* maxAgeMinutes ago, and no others; createdAt <= lastAccessedAt for every
\* session in the map.
C29_SelectionByAccessTime ==
  [][/\ \A i \in DOMAIN sessions' :
          contexts'[sessions'[i].value.browserContext].acquired
            > AcquiredBefore(sessions'[i].value.browserContext)
          => sessions'[i].value.lastAccessedAt = now
     /\ \A m \in MaxAges :
          cleanupOldSessions(m)
          => IF IdleSince(m) = {}
               THEN /\ last' = Return("cleanupOldSessions", "none", TRUE, 0, 0)
                    /\ sessions' = sessions /\ contexts' = contexts /\ calls' = calls
               ELSE \E c \in BagToSet(calls') :
                      /\ c.pc = "sweep" /\ CopiesIn(c, calls) < CopiesIn(c, calls')
                      /\ Pending(c) = IdleSince(m)
                      /\ c.count = Cardinality(IdleSince(m))
     /\ \A i \in DOMAIN sessions :
          sessions[i].value.createdAt <= sessions[i].value.lastAccessedAt]_vars

\* C29 witness: cleanupOldSessions has returned 0 and left in the map a
\* session that was acquired once and released once and was last accessed
\* one minute ago or less.
C29_Witness ==
  /\ last.op = "cleanupOldSessions" /\ last.count = 0
  /\ ticks = 1
  /\ \E i \in DOMAIN sessions :
       /\ sessions[i].value.refCount = 0
       /\ sessions[i].value.lastAccessedAt = 0
       /\ contexts[sessions[i].value.browserContext].acquired = 1
       /\ contexts[sessions[i].value.browserContext].released = 1

====
